---- MODULE Spec2Model ----
(***************************************************************************)
(* A model of the pagopar client library: the application registry         *)
(* (pagopar/_app.py) and the authenticated call pipeline                   *)
(* (pagopar/_http.py).                                                     *)
(*                                                                         *)
(* Threads execute the public operations.  An operation that only touches  *)
(* thread-local data and one critical section of _APP_LOCK (or of an       *)
(* Application's _session_lock) is one atomic action; an operation with    *)
(* several critical sections, or with a suspension point, is one action    *)
(* per section, so that other threads can run in between.                  *)
(***************************************************************************)
EXTENDS Naturals, Sequences, FiniteSets, TLC

VARIABLES
    apps,     \* _app._apps: name -> Application instance (NoApp when absent)
    obj,      \* the Application instances ever constructed, by identity
    numApps,  \* how many Application instances were constructed
    closed,   \* the aiohttp sessions ever created: closed[s] is session s's .closed
    env,      \* os.environ: PAGOPAR_PRIVATE_TOKEN and PAGOPAR_PUBLIC_TOKEN
    live,     \* instances inserted into _apps and not yet deleted from it
    pc,       \* per thread: the position inside the running operation
    op,       \* per thread: the running operation and its arguments
    loc,      \* per thread: the operation's local variables
    out,      \* per thread: how the operation ended (return value or exception)
    started,  \* how many operations the threads have started in this run
    item      \* the PhysicalItem the caller holds (courier.py)

vars == <<apps, obj, numApps, closed, env, live, pc, op, loc, out, started, item>>

-----------------------------------------------------------------------------
(* Bounds of the model *)

\* Application instances that can be constructed in one run.
MaxApps == 3
\* aiohttp sessions that can be created in one run.
MaxSessions == 2
\* Threads calling into the library at the same time.
NumThreads == 2
\* Operations the threads start in one run, all threads together.
MaxOps == 5

Threads == 1..NumThreads
AppIds == 1..MaxApps
NoApp == 0
NoSession == 0

-----------------------------------------------------------------------------
(* Values *)

\* Python's None where a str is expected; no credential, seed or name equals it.
None == "<None>"

_DEFAULT_APP_NAME == "<DEFAULT>"

Names == {_DEFAULT_APP_NAME, "shop"}

\* A slot of obj that no constructor has filled yet.
NoObject == [name |-> None, private_token |-> None, public_token |-> None,
             session |-> NoSession]

NoOp == [kind |-> "none"]
NoLoc == [app |-> NoApp, removed |-> NoApp, sess |-> NoSession, created |-> 0,
          requests |-> 0, request |-> <<>>, response |-> <<>>]
NoOut == [kind |-> "none", val |-> <<>>]
\* No PhysicalItem has been fetched.
NoItem == [shipping_options |-> <<>>]

Returns(v) == [kind |-> "return", val |-> <<v>>]
Raises(e) == [kind |-> e, val |-> <<>>]
RaisesWith(e, m) == [kind |-> e, val |-> <<m>>]

-----------------------------------------------------------------------------
(* pagopar/_app.py *)

TruthyAlways(s) == TRUE

\* bool(s) of an optional str
Truthy(s) == s # None /\ s # ""

\* os.getenv(NAME, default) for the variable whose value is val (None: unset)
Getenv(val, default) == IF val = None THEN default ELSE val

\* initialize_app, lines 122-124: the credentials after the environment fallback
Credentials(private_token, public_token) ==
    IF private_token = None \/ public_token = None
    THEN [private_token |-> Getenv(env.PAGOPAR_PRIVATE_TOKEN, private_token),
          public_token |-> Getenv(env.PAGOPAR_PUBLIC_TOKEN, public_token)]
    ELSE [private_token |-> private_token, public_token |-> public_token]

NameFreeNever(name) == TRUE

\* `name not in _apps`
NameFree(name) == apps[name] = NoApp

\* Application.__init__
Application(name, private_token, public_token) ==
    [name |-> name, private_token |-> private_token,
     public_token |-> public_token, session |-> NoSession]

\* Thread t, idle, enters an operation.
Start(t) ==
    /\ pc[t] = "idle"
    /\ started < MaxOps
    /\ started' = started + 1

\* The thread ends its operation with outcome o.
Finish(t, o) ==
    /\ pc' = [pc EXCEPT ![t] = "done"]
    /\ out' = [out EXCEPT ![t] = o]

initialize_app(t, private_token, public_token, name) ==
    /\ Start(t)
    /\ op' = [op EXCEPT ![t] = [kind |-> "initialize_app", name |-> name,
                                private_token |-> private_token,
                                public_token |-> public_token]]
    /\ LET c == Credentials(private_token, public_token) IN
       IF ~(Truthy(c.private_token) /\ Truthy(c.public_token))
       THEN /\ Finish(t, Raises("ConfigurationError"))
            /\ UNCHANGED <<apps, obj, numApps, live>>
       ELSE IF NameFree(name)
       THEN /\ numApps < MaxApps
            /\ numApps' = numApps + 1
            /\ obj' = [obj EXCEPT ![numApps'] =
                          Application(name, c.private_token, c.public_token)]
            /\ apps' = [apps EXCEPT ![name] = numApps']
            /\ live' = live \cup {numApps'}
            /\ Finish(t, Returns(numApps'))
       ELSE /\ Finish(t, Raises("AlreadyInitializedError"))
            /\ UNCHANGED <<apps, obj, numApps, live>>
    /\ UNCHANGED <<closed, env, item, loc>>

LookupNothing(name) == Raises("NotFoundError")

\* get_app's body as a value: the outcome of looking name up under _APP_LOCK
Lookup(name) ==
    IF apps[name] # NoApp THEN Returns(apps[name]) ELSE Raises("NotFoundError")

get_app(t, name) ==
    /\ Start(t)
    /\ op' = [op EXCEPT ![t] = [kind |-> "get_app", name |-> name]]
    /\ Finish(t, Lookup(name))
    /\ UNCHANGED <<apps, obj, numApps, closed, env, item, live, loc>>

SameInstanceByName(a, b) == TRUE

\* `app is get_app(app.name)`
SameInstance(a, b) == a = b

\* check_initialized_app as a value; app is an instance or NoApp for None
Resolve(app) ==
    IF app = NoApp THEN Lookup(_DEFAULT_APP_NAME)
    ELSE LET r == Lookup(obj[app].name) IN
         IF r.kind # "return" THEN r
         ELSE IF ~SameInstance(app, r.val[1]) THEN Raises("ForeignInstanceError")
         ELSE Returns(app)

check_initialized_app(t, app) ==
    /\ Start(t)
    /\ op' = [op EXCEPT ![t] = [kind |-> "check_initialized_app", app |-> app]]
    /\ Finish(t, Resolve(app))
    /\ UNCHANGED <<apps, obj, numApps, closed, env, item, live, loc>>

NeedsSessionAlways(app) == TRUE

\* Application.session, line 82: `not self._session or self._session.closed`
NeedsSession(app) ==
    obj[app].session = NoSession \/ closed[obj[app].session]

\* The Application.session property, one critical section of _session_lock:
\* thread t reads app.session, which creates the session when needed.
session(t, app) ==
    IF NeedsSession(app)
    THEN /\ Len(closed) < MaxSessions
         /\ closed' = Append(closed, FALSE)
         /\ obj' = [obj EXCEPT ![app].session = Len(closed) + 1]
         /\ loc' = [loc EXCEPT ![t].sess = Len(closed) + 1,
                               ![t].created = @ + 1]
    ELSE /\ loc' = [loc EXCEPT ![t].sess = obj[app].session]
         /\ UNCHANGED <<closed, obj>>

\* close_app, line 186: app = get_app(name)
close_app(t, name) ==
    /\ Start(t)
    /\ op' = [op EXCEPT ![t] = [kind |-> "close_app", name |-> name]]
    /\ LET r == Lookup(name) IN
       IF r.kind = "return"
       THEN /\ pc' = [pc EXCEPT ![t] = "close_del"]
            /\ loc' = [loc EXCEPT ![t].app = r.val[1]]
            /\ UNCHANGED out
       ELSE /\ Finish(t, r)
            /\ UNCHANGED loc
    /\ UNCHANGED <<apps, obj, numApps, closed, env, item, live>>

\* close_app, lines 187-188: with _APP_LOCK: del _apps[name]
close_del(t) ==
    /\ pc[t] = "close_del"
    /\ IF apps[op[t].name] # NoApp
       THEN /\ apps' = [apps EXCEPT ![op[t].name] = NoApp]
            /\ live' = live \ {apps[op[t].name]}
            /\ loc' = [loc EXCEPT ![t].removed = apps[op[t].name]]
            /\ pc' = [pc EXCEPT ![t] = "close_check"]
            /\ UNCHANGED out
       ELSE /\ Finish(t, Raises("KeyError"))
            /\ UNCHANGED <<apps, live, loc>>
    /\ UNCHANGED <<obj, numApps, closed, env, item, op, started>>

\* close_app, line 189: if app._session and not app._session.closed
close_check(t) ==
    /\ pc[t] = "close_check"
    /\ IF ~NeedsSession(loc[t].app)
       THEN /\ pc' = [pc EXCEPT ![t] = "close_session"]
            /\ UNCHANGED out
       ELSE Finish(t, Returns(None))
    /\ UNCHANGED <<apps, obj, numApps, closed, env, item, live, op, loc, started>>

\* close_app, line 190: the app.session read
close_session(t) ==
    /\ pc[t] = "close_session"
    /\ session(t, loc[t].app)
    /\ pc' = [pc EXCEPT ![t] = "close_await"]
    /\ UNCHANGED <<apps, numApps, env, item, live, op, out, started>>

\* close_app, line 190: await <session>.close()
close_await(t) ==
    /\ pc[t] = "close_await"
    /\ closed' = [closed EXCEPT ![loc[t].sess] = TRUE]
    /\ Finish(t, Returns(None))
    /\ UNCHANGED <<apps, obj, numApps, env, item, live, op, loc, started>>

-----------------------------------------------------------------------------
(* pagopar/_http.py: the request *)

\* Field names a payload can carry.
Fields == {"token", "public_key", "token_publico", "monto_total", "tipo_pedido", "comprador", "compras_items"}

\* A payload is a function on Fields; Absent marks a key the dict does not hold.
Absent == "<absent>"
\* The values a caller puts under a key: a scalar, a list of scalars, a mapping.
Scalar == "100"
ScalarList == "[100, 200]"
Mapping == "{ruc: 100}"

Empty == [f \in Fields |-> Absent]

\* aiohttp.ClientRequest.GET_METHODS and POST_METHODS
GET_METHODS == {"GET", "HEAD", "OPTIONS", "TRACE"}
POST_METHODS == {"PATCH", "POST", "PUT"}

\* hashlib.sha1(data).hexdigest(): the digest names its input and nothing else
sha1(data) == "sha1(" \o data \o ")"

create_token_separated(token_data, app) == sha1(obj[app].private_token \o ":" \o token_data)

\* create_token, line 65, for an app that check_initialized_app accepted
create_token(token_data, app) == sha1(obj[app].private_token \o token_data)

SignedKeepingFields(payload, key_hashed_token, key_public_token, token, public_token) ==
    [f \in Fields |->
        IF payload[f] # Absent THEN payload[f]
        ELSE IF f = key_public_token THEN public_token
        ELSE IF f = key_hashed_token THEN token
        ELSE Absent]

\* send_request, lines 82-83: the two assignments into the caller's dict, in order
Signed(payload, key_hashed_token, key_public_token, token, public_token) ==
    [f \in Fields |->
        IF f = key_public_token THEN public_token
        ELSE IF f = key_hashed_token THEN token
        ELSE payload[f]]

\* The members of a dict as the transport serialises them: a JSON object
\* (encoder.encode) or a query string holds one member per key the dict has.
Members(payload) == {<<f, payload[f]>> : f \in {g \in Fields : payload[g] # Absent}}

EncodingAnyMethod(method, payload) ==
    IF method \in GET_METHODS
    THEN [ok |-> TRUE, params |-> Members(payload), data |-> {},
          content_type |-> None]
    ELSE [ok |-> TRUE, params |-> {}, data |-> Members(payload),
          content_type |-> "application/json; charset=utf-8"]

\* send_request, lines 85-91: where the payload goes; ok is FALSE at `raise ValueError`
Encoding(method, payload) ==
    IF method \in GET_METHODS
    THEN [ok |-> TRUE, params |-> Members(payload), data |-> {},
          content_type |-> None]
    ELSE IF method \in POST_METHODS
    THEN [ok |-> TRUE, params |-> {}, data |-> Members(payload),
          content_type |-> "application/json; charset=utf-8"]
    ELSE [ok |-> FALSE, params |-> {}, data |-> {}, content_type |-> None]

\* JSONQuery, line 43: every value a str or number, or a list of them
IsJSONQuery(payload) == \A f \in Fields : payload[f] # Mapping

\* send_request, line 80: app = check_initialized_app(app)
send_request(t, method, token_data, response_type, payload, key_hashed_token, key_public_token, app) ==
    /\ Start(t)
    /\ op' = [op EXCEPT ![t] =
                 [kind |-> "send_request", method |-> method,
                  token_data |-> token_data, response_type |-> response_type,
                  payload |-> payload, key_hashed_token |-> key_hashed_token,
                  key_public_token |-> key_public_token, app |-> app]]
    /\ LET r == Resolve(app) IN
       IF r.kind = "return"
       THEN /\ pc' = [pc EXCEPT ![t] = "send_sign"]
            /\ loc' = [loc EXCEPT ![t].app = r.val[1]]
            /\ UNCHANGED out
       ELSE /\ Finish(t, r)
            /\ UNCHANGED loc
    /\ UNCHANGED <<apps, obj, numApps, closed, env, item, live>>

\* send_request, lines 82-91: create_token resolves the app once more (line 64),
\* the payload is signed, and the method picks the encoding
send_sign(t) ==
    /\ pc[t] = "send_sign"
    /\ LET a == loc[t].app
           r == Resolve(a)
           p == Signed(op[t].payload, op[t].key_hashed_token,
                       op[t].key_public_token,
                       create_token(op[t].token_data, a), obj[a].public_token)
           e == Encoding(op[t].method, p)
       IN  IF r.kind # "return"
           THEN /\ Finish(t, r)
                /\ UNCHANGED loc
           ELSE IF ~e.ok
           THEN /\ Finish(t, Raises("UnsupportedMethodError"))
                /\ UNCHANGED loc
           ELSE /\ pc' = [pc EXCEPT ![t] = "send_session"]
                /\ loc' = [loc EXCEPT ![t].request =
                              <<[method |-> op[t].method, params |-> e.params,
                                 data |-> e.data,
                                 content_type |-> e.content_type]>>]
                /\ UNCHANGED out
    /\ UNCHANGED <<apps, obj, numApps, closed, env, item, live, op, started>>

\* send_request, line 93: the app.session read
send_session(t) ==
    /\ pc[t] = "send_session"
    /\ session(t, loc[t].app)
    /\ pc' = [pc EXCEPT ![t] = "send_call"]
    /\ UNCHANGED <<apps, numApps, env, item, live, op, out, started>>

\* send_request, lines 93-99: <session>.request(...) is entered. A closed
\* session refuses the call (RuntimeError); an open one carries the request.
send_call(t) ==
    /\ pc[t] = "send_call"
    /\ loc' = [loc EXCEPT ![t].requests = @ + 1]
    /\ IF closed[loc[t].sess]
       THEN Finish(t, Raises("SessionClosedError"))
       ELSE /\ pc' = [pc EXCEPT ![t] = "send_wait"]
            /\ UNCHANGED out
    /\ UNCHANGED <<apps, obj, numApps, closed, env, item, live, op, started>>

-----------------------------------------------------------------------------
(* pagopar/_http.py: the response *)

\* A JSON value as the decoder sees it: its type and, for a string, its text.
JAbsent == [type |-> "absent", text |-> ""]
JString(text) == [type |-> "string", text |-> text]
JObject == [type |-> "object", text |-> ""]
JNumber == [type |-> "number", text |-> ""]

\* A response body: form is "garbage" (not JSON), "array" (JSON, not an
\* object) or "object"; an object has the members respuesta and resultado.
\* respuesta is "true", "false", "absent" or "null".
Body(form, respuesta, resultado) ==
    [form |-> form, respuesta |-> respuesta, resultado |-> resultado]

\* Whether a JSON value converts to response_type: "str", or "struct" for the
\* msgspec.Struct, list and dict shapes the endpoints ask for.
Conforms(value, response_type) ==
    IF response_type = "str" THEN value.type = "string"
    ELSE value.type = "object"

DecodeFailed == [ok |-> FALSE, success |-> FALSE, payload |-> JAbsent]

\* msgspec.json.Decoder(Response[response_type], strict=False).decode, lines
\* 46-48 and 100: success is a required bool; payload is `T | str` and
\* defaults to "". ok is FALSE where msgspec raises DecodeError.
Decode(body, response_type) ==
    IF body.form # "object" \/ body.respuesta \notin {"true", "false"}
    THEN DecodeFailed
    ELSE IF body.resultado.type = "absent"
    THEN [ok |-> TRUE, success |-> body.respuesta = "true",
          payload |-> JString("")]
    ELSE IF body.resultado.type = "string"
            \/ Conforms(body.resultado, response_type)
    THEN [ok |-> TRUE, success |-> body.respuesta = "true",
          payload |-> body.resultado]
    ELSE DecodeFailed

RaiseForStatusNever(status) == FALSE

\* response.raise_for_status(), line 104: raises for a status of 400 and above
RaiseForStatus(status) == status >= 400

\* _errors.parse_error: the rejection built from the envelope's payload
parse_error(payload) == RaisesWith("RemoteRejectionError", payload)

ReplyStatusFirst(status, body, response_type) ==
    LET model == Decode(body, response_type) IN
    IF RaiseForStatus(status) THEN RaisesWith("TransportError", status)
    ELSE IF ~model.ok THEN Raises("ProtocolError")
    ELSE IF ~model.success THEN parse_error(model.payload)
    ELSE Returns(model.payload)

\* send_request, lines 100-108: the outcome for a response that arrived
Reply(status, body, response_type) ==
    LET model == Decode(body, response_type) IN
    IF ~model.ok
    THEN IF RaiseForStatus(status) THEN RaisesWith("TransportError", status)
         ELSE Raises("ProtocolError")
    ELSE IF ~model.success THEN parse_error(model.payload)
    ELSE Returns(model.payload)

\* A payload that conforms to list[Transaction] and holds no element.
JEmpty == [type |-> "object", text |-> "[]"]
\* The element response[0] of a list that holds one.
JFirst == [type |-> "object", text |-> "[0]"]

\* checkout.py, `response[0]`, lines 236 and 330: the first Transaction of the
\* list, the first character of a str payload, IndexError where there is none
first(response) ==
    IF response.type = "string"
    THEN IF response.text = "" THEN Raises("IndexError") ELSE Returns(response)
    ELSE IF response = JEmpty THEN Raises("IndexError")
    ELSE Returns(JFirst)

\* The functions of checkout.py that end in `return response[0]`.
StartKinds == {"start_transaction", "start_transaction_in_usd"}

\* What the function that awaited send_request makes of its outcome: an
\* exception passes through, start_transaction returns response[0].
Awaited(kind, reply) ==
    IF kind \in StartKinds /\ reply.kind = "return" THEN first(reply.val[1])
    ELSE reply

\* send_request, lines 99-108: the response arrives and is decoded
send_receive(t, status, body) ==
    /\ pc[t] = "send_wait"
    /\ loc' = [loc EXCEPT ![t].response = <<[status |-> status, body |-> body]>>]
    /\ Finish(t, Awaited(op[t].kind, Reply(status, body, op[t].response_type)))
    /\ UNCHANGED <<apps, obj, numApps, closed, env, item, live, op, started>>

\* send_request, lines 93-99: the transport fails before a response arrives
\* (connection error, timeout): an aiohttp.ClientError leaves send_request
send_abort(t) ==
    /\ pc[t] = "send_wait"
    /\ Finish(t, Raises("TransportError"))
    /\ UNCHANGED <<apps, obj, numApps, closed, env, item, live, op, loc, started>>

-----------------------------------------------------------------------------
(* pagopar/checkout.py *)

\* The longest item collection a caller passes.
MaxItems == 2

\* Item and BasicItem: the field start_transaction reads
Item(seller_public_key) == [seller_public_key |-> seller_public_key]

\* The item collections: empty, or up to MaxItems items of two sellers.
ItemLists == UNION {[1..n -> {Item("s1"), Item("s2")}] : n \in 0..MaxItems}

\* The amounts of an order.
Amounts == {100, 250}

\* str(amount), lines 209 and 308
Str(amount) == IF amount = 100 THEN "100" ELSE "250"

NotItemsNever(items) == FALSE

\* `not items`, lines 199 and 302: a collection is falsy when it is empty
NotItems(items) == Len(items) = 0

\* start_transaction, lines 202-204
order_type(items) ==
    IF Cardinality({items[i].seller_public_key : i \in 1..Len(items)}) > 1
    THEN "SPLIT_BILLING" ELSE "SIMPLE"

\* The call `_http.send_request(method=METH_POST, ...)` of lines 206-234 and
\* 305-328 up to its line 80, made by the function kind of checkout.py.
post_transaction(t, kind, items, amount, payload, app) ==
    /\ op' = [op EXCEPT ![t] =
                 [kind |-> kind, items |-> items, amount |-> amount,
                  method |-> "POST", token_data |-> Str(amount),
                  response_type |-> "struct", payload |-> payload,
                  key_hashed_token |-> "token",
                  key_public_token |-> "public_key", app |-> app]]
    /\ LET r == Resolve(app) IN
       IF r.kind = "return"
       THEN /\ pc' = [pc EXCEPT ![t] = "send_sign"]
            /\ loc' = [loc EXCEPT ![t].app = r.val[1]]
            /\ UNCHANGED out
       ELSE /\ Finish(t, r)
            /\ UNCHANGED loc

\* start_transaction, lines 199-200: the guard comes before everything else
empty_items(t, kind, items, amount, app) ==
    /\ op' = [op EXCEPT ![t] = [kind |-> kind, items |-> items,
                                amount |-> amount, app |-> app]]
    /\ Finish(t, RaisesWith("ValueError", "Empty item list"))
    /\ UNCHANGED loc

\* start_transaction, lines 199-236; the rest of the call is send_request's
start_transaction(t, items, amount, app) ==
    /\ Start(t)
    /\ IF NotItems(items)
       THEN empty_items(t, "start_transaction", items, amount, app)
       ELSE post_transaction(t, "start_transaction", items, amount,
                [Empty EXCEPT !["monto_total"] = Str(amount),
                              !["tipo_pedido"] = order_type(items),
                              !["comprador"] = Mapping,
                              !["compras_items"] = ScalarList], app)
    /\ UNCHANGED <<apps, obj, numApps, closed, env, item, live>>

\* start_transaction_in_usd, lines 302-330
start_transaction_in_usd(t, items, amount, app) ==
    /\ Start(t)
    /\ IF NotItems(items)
       THEN empty_items(t, "start_transaction_in_usd", items, amount, app)
       ELSE post_transaction(t, "start_transaction_in_usd", items, amount,
                [Empty EXCEPT !["monto_total"] = Str(amount),
                              !["comprador"] = Mapping,
                              !["compras_items"] = ScalarList], app)
    /\ UNCHANGED <<apps, obj, numApps, closed, env, item, live>>

-----------------------------------------------------------------------------
(* pagopar/courier.py *)

\* The members of the ShippingMethod enum.
ShippingMethod == {"AEX", "MOBI", "OWN_DELIVERY", "PICKUP"}

\* An optional sub-configuration is <<>> for None and <<c>> for the struct c.
PickupMethod == [notes |-> "Av. Mcal. Lopez 1234", cost |-> 5000]
DeliveryMethod == [delivery_rules |-> <<[destination_id |-> "1", price |-> 8000]>>]

\* CourierOption: the fields select_shipping_method reads
CourierOption(option_id, cost) == [option_id |-> option_id, cost |-> cost]

\* The options a courier quotes.
Quotes == {CourierOption("10-0", 15000), CourierOption("10-1", 20000)}

\* Options in one courier's list.
MaxOptions == 2

OptionLists == UNION {[1..n -> Quotes] : n \in 0..MaxOptions}

\* AEXMethod and MOBIMethod have the same fields.
CourierMethod(option_id, options) ==
    [option_id |-> option_id, options |-> options, cost |-> 0]

ShippingOptions(pickup_method, delivery_method, mobi_method, aex_method) ==
    [type |-> "ShippingOptions",
     pickup_method |-> pickup_method, delivery_method |-> delivery_method,
     mobi_method |-> mobi_method, aex_method |-> aex_method]

ShippingOptionsSelectionFree(shipping_options, shipping_cost, selected_method) ==
    [type |-> "ShippingOptionsSelection",
     pickup_method |-> shipping_options.pickup_method,
     delivery_method |-> shipping_options.delivery_method,
     mobi_method |-> shipping_options.mobi_method,
     aex_method |-> shipping_options.aex_method,
     commerce_commission |-> 0, shipping_cost |-> 0,
     selected_method |-> selected_method]

ShippingOptionsSelectionCarrying(shipping_options, shipping_cost, selected_method) ==
    [type |-> "ShippingOptionsSelection",
     pickup_method |-> shipping_options.pickup_method,
     delivery_method |-> shipping_options.delivery_method,
     mobi_method |-> shipping_options.mobi_method,
     aex_method |-> shipping_options.aex_method,
     commerce_commission |->
         IF shipping_options.type = "ShippingOptionsSelection"
         THEN shipping_options.shipping_cost ELSE 0,
     shipping_cost |-> shipping_cost,
     selected_method |-> selected_method]

\* select_shipping_method, lines 450-457: the record built from the
\* sub-configurations of shipping_options
ShippingOptionsSelection(shipping_options, shipping_cost, selected_method) ==
    [type |-> "ShippingOptionsSelection",
     pickup_method |-> shipping_options.pickup_method,
     delivery_method |-> shipping_options.delivery_method,
     mobi_method |-> shipping_options.mobi_method,
     aex_method |-> shipping_options.aex_method,
     commerce_commission |-> 0, shipping_cost |-> shipping_cost,
     selected_method |-> selected_method]

InMethodMapAlways(method) == TRUE

\* `method in method_map`, line 440
InMethodMap(method) == method \in {"AEX", "MOBI"}

method_map_swapped(shipping_options, method) ==
    IF method = "AEX" THEN shipping_options.mobi_method
    ELSE shipping_options.aex_method

\* method_map[method], lines 435-438 and 441
method_map(shipping_options, method) ==
    IF method = "AEX" THEN shipping_options.aex_method
    ELSE shipping_options.mobi_method

MatchAny(options, option_id) == IF options = <<>> THEN 0 ELSE 1

\* next(o for o in options if o.option_id == option_id), line 444: the
\* position of the first option with that id, 0 at StopIteration
Match(options, option_id) ==
    LET found == {i \in 1..Len(options) : options[i].option_id = option_id}
    IN  IF found = {} THEN 0
        ELSE CHOOSE i \in found : \A j \in found : i <= j

ChosenKept(courier, option_id) == courier

\* `obj.option_id = option_id`, line 448, on a sub-configuration
Chosen(courier, option_id) ==
    IF courier = <<>> THEN courier
    ELSE <<[courier[1] EXCEPT !.option_id = option_id]>>

WrittenBoth(shipping_options, method, option_id) ==
    [shipping_options EXCEPT !.aex_method = Chosen(@, option_id),
                             !.mobi_method = Chosen(@, option_id)]

\* shipping_options once line 448 has written into the sub-configuration
\* of method, which the options record shares with method_map
Written(shipping_options, method, option_id) ==
    IF method = "AEX"
    THEN [shipping_options EXCEPT !.aex_method = Chosen(@, option_id)]
    ELSE [shipping_options EXCEPT !.mobi_method = Chosen(@, option_id)]

\* select_shipping_method: a computation on the caller's item, one step
select_shipping_method(t, method, option_id) ==
    /\ pc[t] = "idle"
    /\ op' = [op EXCEPT ![t] = [kind |-> "select_shipping_method", item |-> item,
                                method |-> method, option_id |-> option_id]]
    /\ LET shipping_options == item.shipping_options
           courier == method_map(shipping_options, method)
       IN  IF ~InMethodMap(method)
           THEN /\ item' = [item EXCEPT !.shipping_options =
                               ShippingOptionsSelection(shipping_options, 0, method)]
                /\ Finish(t, Returns(None))
           ELSE IF courier = <<>>
           THEN /\ Finish(t, Raises("MissingConfigurationError"))
                /\ UNCHANGED item
           ELSE LET i == Match(courier[1].options, option_id) IN
                IF i = 0
                THEN /\ Finish(t, Raises("InvalidOptionError"))
                     /\ UNCHANGED item
                ELSE /\ item' = [item EXCEPT !.shipping_options =
                                    ShippingOptionsSelection(
                                        Written(shipping_options, method, option_id),
                                        courier[1].options[i].cost, method)]
                     /\ Finish(t, Returns(None))
    /\ UNCHANGED <<apps, obj, numApps, closed, env, live, loc, started>>

-----------------------------------------------------------------------------

-----------------------------------------------------------------------------
(* pagopar/sync.py *)

\* The depth at which the interpreter refuses one more frame
\* (sys.getrecursionlimit(), a thousand frames in CPython).
RecursionLimit == 3

\* The most entries a notification carries.
MaxEntries == 2

\* A JSON integer and the JSON null.
JInt(n) == [type |-> "int", n |-> n]
JNull == [type |-> "null", text |-> ""]

\* class LogType(enum.Enum), lines 305-319
LogType == [SOLD_ORDER |-> 1, CANCELLED_ORDER |-> 2, MODIFIED_PRODUCT |-> 3, CREATED_PRODUCT |-> 4]

LogTypeValues == {LogType[k] : k \in DOMAIN LogType}

\* The strings int() reads as a number, with the number.
Numerals == [text \in {"3", "7"} |-> IF text = "3" THEN 3 ELSE 7]

\* int(value), line 324: the number of an int or of a numeral; ValueError
\* for another string and TypeError for None (ok is FALSE)
int(value) ==
    IF value.type = "int" THEN [ok |-> TRUE, n |-> value.n]
    ELSE IF value.type = "string" /\ value.text \in DOMAIN Numerals
    THEN [ok |-> TRUE, n |-> Numerals[value.text]]
    ELSE [ok |-> FALSE, n |-> 0]

\* What a lookup of a LogType by value comes to.
Member(n) == [kind |-> "member", n |-> n]
NoMember == [kind |-> "none", n |-> 0]
Overflow == [kind |-> "RecursionError", n |-> 0]

\* LogType._missing_, lines 321-326, entered at the given depth of the stack.
\* cls(int(value)) looks the number up; a number that is no member's value
\* makes Enum call _missing_ again with it, one frame deeper, and so on until
\* the interpreter raises RecursionError, which line 325 does not catch. The
\* ValueError Enum raises for a None result is caught there.
RECURSIVE _missing_(_, _)
_missing_(value, depth) ==
    IF depth > RecursionLimit THEN Overflow
    ELSE LET i == int(value) IN
         IF ~i.ok THEN NoMember
         ELSE IF i.n \in LogTypeValues THEN Member(i.n)
         ELSE LET again == _missing_(JInt(i.n), depth + 1) IN
              IF again.kind = "none" THEN NoMember ELSE again

\* The outcome of decoding one field or one entry.
Decoded(value) == [ok |-> TRUE, value |-> value, error |-> ""]
Undecoded(error) == [ok |-> FALSE, value |-> 0, error |-> error]

LogBaseDefaulting(raw) ==
    IF raw.tipo_aviso.type = "int" /\ raw.tipo_aviso.n \in LogTypeValues
    THEN Decoded(raw.tipo_aviso.n)
    ELSE Decoded(LogType.SOLD_ORDER)

\* decode(raw, type=LogBase).log_type, line 628: a strict decode of the
\* member "tipo_aviso" as a LogType. msgspec takes a JSON integer only: the
\* value of a member gives the member, another integer is handed to
\* LogType._missing_, and whatever that call raises or returns short of a
\* member ends as msgspec.ValidationError ("Invalid enum value"); a JSON value
\* of another type ends as msgspec.ValidationError without the call.
LogBase(raw) ==
    LET v == raw.tipo_aviso IN
    IF v.type = "absent" THEN Undecoded("DecodeError")
    ELSE IF v.type # "int" THEN Undecoded("UnknownLogTypeError")
    ELSE IF v.n \in LogTypeValues THEN Decoded(v.n)
    ELSE LET found == _missing_(v, 1) IN
         IF found.kind = "member" THEN Decoded(found.n)
         ELSE Undecoded("UnknownLogTypeError")

\* product_logs, line 624
product_logs == {LogType.CREATED_PRODUCT, LogType.MODIFIED_PRODUCT}

TargetProductLog(log_type) == "ProductLog"

\* target_type, line 629
Target(log_type) ==
    IF log_type \in product_logs THEN "ProductLog" ELSE "InventoryLog"

\* What the rest of an entry holds: "product" has the full product under
\* "datos"; "inventory" has "cantidad" there and the members imagenes,
\* comercio and comercio_padre_heredado; "both" has all of it; "neither" lacks
\* a member both shapes require. Members a shape does not name are ignored.
Rests == {"product", "inventory", "both", "neither"}

\* Whether the rest of an entry decodes as ProductLog (lines 493-509) or as
\* InventoryLog (lines 521-543).
Fits(rest, target_type) ==
    IF target_type = "ProductLog" THEN rest \in {"product", "both"}
    ELSE rest \in {"inventory", "both"}

\* decode(raw, type=target_type), line 630
DecodeAs(raw, target_type) ==
    LET base == LogBase(raw) IN
    IF ~base.ok THEN base
    ELSE IF ~Fits(raw.rest, target_type) THEN Undecoded("DecodeError")
    ELSE Decoded([shape |-> target_type, log_type |-> base.value,
                  product |-> raw.rest])

\* The loop of lines 627-630 from entry i on, with the entries parsed so far.
RECURSIVE Entries(_, _, _)
Entries(data, i, parsed) ==
    IF i > Len(data) THEN Decoded(parsed)
    ELSE LET base == LogBase(data[i]) IN
         IF ~base.ok THEN base
         ELSE LET log == DecodeAs(data[i], Target(base.value)) IN
              IF ~log.ok THEN log
              ELSE Entries(data, i + 1, Append(parsed, log.value))

\* parse_syncronization, lines 616-636
Parsed(message) ==
    IF message.form # "object" THEN Raises("DecodeError")
    ELSE LET logs == Entries(message.datos, 1, <<>>) IN
         IF ~logs.ok THEN Raises(logs.error)
         ELSE Returns([public_token |-> message.token_publico,
                       hashed_token |-> message.token,
                       data |-> logs.value])

parse_syncronization(t, message) ==
    /\ pc[t] = "idle"
    /\ op' = [op EXCEPT ![t] = [kind |-> "parse_syncronization",
                                message |-> message]]
    /\ Finish(t, Parsed(message))
    /\ UNCHANGED <<apps, obj, numApps, closed, env, item, live, loc, started>>

-----------------------------------------------------------------------------

\* The caller takes the outcome; the thread is free for its next operation.
Return(t) ==
    /\ pc[t] = "done"
    /\ pc' = [pc EXCEPT ![t] = "idle"]
    /\ op' = [op EXCEPT ![t] = NoOp]
    /\ loc' = [loc EXCEPT ![t] = NoLoc]
    /\ out' = [out EXCEPT ![t] = NoOut]
    /\ UNCHANGED <<apps, obj, numApps, closed, env, item, live, started>>

-----------------------------------------------------------------------------

Init ==
    /\ started = 0
    /\ apps = [n \in Names |-> NoApp]
    /\ obj = [a \in AppIds |-> NoObject]
    /\ numApps = 0
    /\ closed = <<>>
    /\ env = [PAGOPAR_PRIVATE_TOKEN |-> None, PAGOPAR_PUBLIC_TOKEN |-> None]
    /\ item = NoItem
    /\ live = {}
    /\ pc = [t \in Threads |-> "idle"]
    /\ op = [t \in Threads |-> NoOp]
    /\ loc = [t \in Threads |-> NoLoc]
    /\ out = [t \in Threads |-> NoOut]

\* An Application argument: None, or an instance some initialize_app returned.
AppArgs == 0..numApps

\* The payloads callers pass: empty, one scalar, one list, one mapping, and a
\* dict that already holds the keys of the signature and the public credential.
Payloads ==
    { Empty,
      [Empty EXCEPT !["monto_total"] = Scalar],
      [Empty EXCEPT !["monto_total"] = ScalarList],
      [Empty EXCEPT !["monto_total"] = Mapping],
      [Empty EXCEPT !["token"] = Scalar, !["public_key"] = Scalar,
                    !["token_publico"] = Scalar] }

Bodies ==
    { Body("garbage", "absent", JAbsent), Body("array", "absent", JAbsent),
      Body("object", "absent", JObject), Body("object", "null", JObject) }
    \cup { Body("object", r, v) : r \in {"true", "false"},
                                  v \in {JAbsent, JString("X"), JObject, JNumber} }

OkBody == Body("object", "true", JObject)

\* The inputs of the concurrent specification: one kind of call, many threads.
Few ==
    [names |-> {_DEFAULT_APP_NAME}, creds |-> {<<"k1", "u1">>},
     methods |-> {"POST"}, seeds |-> {"CONSULTA"}, payloads |-> {Empty},
     key_public |-> {"public_key"}, response_types |-> {"struct"},
     statuses |-> {200}, bodies |-> {OkBody}]

\* The inputs of the request side of a call.
Requests ==
    [names |-> Names,
     creds |-> {<<"k1", "u1">>, <<"k2", "u2">>, <<None, None>>},
     methods |-> {"GET", "POST", "DELETE"}, seeds |-> {"CONSULTA", "100"},
     payloads |-> Payloads, key_public |-> {"public_key", "token_publico"},
     response_types |-> {"struct"}, statuses |-> {200}, bodies |-> {OkBody}]

\* The inputs of the response side of a call.
Responses ==
    [names |-> {_DEFAULT_APP_NAME}, creds |-> {<<"k1", "u1">>, <<None, None>>},
     methods |-> {"POST", "DELETE"}, seeds |-> {"CONSULTA"}, payloads |-> {Empty},
     key_public |-> {"public_key"}, response_types |-> {"str", "struct"},
     statuses |-> {200, 404, 500}, bodies |-> Bodies]

\* The inputs of initialize_app: credentials given, omitted (None) or empty.
Configs ==
    [names |-> Names,
     creds |-> {"k1", None, ""} \X {"u1", None, ""},
     methods |-> {"POST"}, seeds |-> {"CONSULTA"}, payloads |-> {Empty},
     key_public |-> {"public_key"}, response_types |-> {"struct"},
     statuses |-> {200}, bodies |-> {OkBody}]

\* os.environ as the process finds it: each variable unset, empty or set.
Envs ==
    [PAGOPAR_PRIVATE_TOKEN : {None, "", "ek"},
     PAGOPAR_PUBLIC_TOKEN : {None, "", "eu"}]

\* The state after import in a process started with any environment.
InitEnv ==
    /\ started = 0
    /\ apps = [n \in Names |-> NoApp]
    /\ obj = [a \in AppIds |-> NoObject]
    /\ numApps = 0
    /\ closed = <<>>
    /\ env \in Envs
    /\ item = NoItem
    /\ live = {}
    /\ pc = [t \in Threads |-> "idle"]
    /\ op = [t \in Threads |-> NoOp]
    /\ loc = [t \in Threads |-> NoLoc]
    /\ out = [t \in Threads |-> NoOut]

\* One step of thread t with its inputs drawn from I.
Step(t, I) ==
    \/ \E n \in I.names, c \in I.creds : initialize_app(t, c[1], c[2], n)
    \/ \E n \in I.names : get_app(t, n)
    \/ \E a \in AppArgs : check_initialized_app(t, a)
    \/ \E n \in I.names : close_app(t, n)
    \/ close_del(t)
    \/ close_check(t)
    \/ close_session(t)
    \/ close_await(t)
    \/ \E m \in I.methods, s \in I.seeds, r \in I.response_types,
          p \in I.payloads, k \in I.key_public, a \in AppArgs :
          send_request(t, m, s, r, p, "token", k, a)
    \/ send_sign(t)
    \/ send_session(t)
    \/ send_call(t)
    \/ \E s \in I.statuses, b \in I.bodies : send_receive(t, s, b)
    \/ send_abort(t)
    \/ Return(t)

\* The concurrent specification: every thread runs registry operations and calls.
Next == \E t \in Threads : Step(t, Few)

Spec == Init /\ [][Next]_vars

NextCall == Step(1, Requests)

SpecCall == Init /\ [][NextCall]_vars

NextDecode == Step(1, Responses)

SpecDecode == Init /\ [][NextDecode]_vars

NextEnv == Step(1, Configs)

SpecEnv == InitEnv /\ [][NextEnv]_vars

\* The bodies of a response to iniciar-transaccion: not JSON, a list of one
\* Transaction, an empty list, a message, a rejection.
Orders ==
    { Body("garbage", "absent", JAbsent), OkBody, Body("object", "true", JEmpty),
      Body("object", "true", JString("X")), Body("object", "true", JAbsent),
      Body("object", "false", JString("X")) }

NextCheckout ==
    \/ initialize_app(1, "k1", "u1", _DEFAULT_APP_NAME)
    \/ \E n \in Names : close_app(1, n)
    \/ close_del(1)
    \/ close_check(1)
    \/ close_session(1)
    \/ close_await(1)
    \/ \E i \in ItemLists, n \in Amounts, a \in AppArgs : start_transaction(1, i, n, a)
    \/ \E i \in ItemLists, n \in Amounts, a \in AppArgs : start_transaction_in_usd(1, i, n, a)
    \/ send_sign(1)
    \/ send_session(1)
    \/ send_call(1)
    \/ \E s \in {200, 500}, b \in Orders : send_receive(1, s, b)
    \/ send_abort(1)
    \/ Return(1)

\* One caller starts transactions, with and without a registered Application.
SpecCheckout == Init /\ [][NextCheckout]_vars

\* The values Pagopar or anyone else puts under "tipo_aviso": the four
\* members, a number that is none, a numeral, a word, nothing.
Discriminants ==
    {JInt(n) : n \in LogTypeValues \cup {7}} \cup {JString("7"), JString("abc"), JAbsent}

\* One entry of "datos".
Raw(tipo_aviso, rest) == [tipo_aviso |-> tipo_aviso, rest |-> rest]

\* A notification that is no JSON object.
Garbage == [form |-> "garbage", token_publico |-> "", token |-> "", datos |-> <<>>]

\* A notification that is a JSON object with the entries datos.
Message(datos) == [form |-> "object", token_publico |-> "u1", token |-> "h1", datos |-> datos]

\* The entries a notification lists.
RawEntries == {Raw(v, r) : v \in Discriminants, r \in Rests}

NextSync ==
    \/ parse_syncronization(1, Garbage)
    \/ pc[1] = "idle" /\ \E n \in 0..MaxEntries : \E d \in [1..n -> RawEntries] : parse_syncronization(1, Message(d))
    \/ Return(1)

\* One caller parses notifications.
SpecSync == Init /\ [][NextSync]_vars

\* The sub-configurations an item arrives with: none selected yet.
Couriers == {<<>>} \cup {<<CourierMethod(None, l)>> : l \in OptionLists}

\* The items calculate_freight returns.
Items ==
    {[shipping_options |-> ShippingOptions(p, d, m, a)] :
        p \in {<<>>, <<PickupMethod>>}, d \in {<<>>, <<DeliveryMethod>>},
        m \in Couriers, a \in Couriers}

\* The option ids a buyer sends: none, two quoted ones, one never quoted.
OptionIds == {None, "10-0", "10-1", "99-9"}

InitShip ==
    /\ started = 0
    /\ apps = [n \in Names |-> NoApp]
    /\ obj = [a \in AppIds |-> NoObject]
    /\ numApps = 0
    /\ closed = <<>>
    /\ env = [PAGOPAR_PRIVATE_TOKEN |-> None, PAGOPAR_PUBLIC_TOKEN |-> None]
    /\ item \in Items
    /\ live = {}
    /\ pc = [t \in Threads |-> "idle"]
    /\ op = [t \in Threads |-> NoOp]
    /\ loc = [t \in Threads |-> NoLoc]
    /\ out = [t \in Threads |-> NoOut]

NextShip ==
    \/ \E m \in ShippingMethod, o \in OptionIds : select_shipping_method(1, m, o)
    \/ Return(1)

\* One caller selects shipping methods for an item, again and again.
SpecShip == InitShip /\ [][NextShip]_vars

-----------------------------------------------------------------------------
(* Properties *)

Done(t) == pc[t] = "done"

\* Thread t's send_request has received and handled a response.
Replied(t) ==
    Done(t) /\ op[t].kind = "send_request" /\ loc[t].response # <<>>

StatusOf(t) == loc[t].response[1].status
BodyOf(t) == loc[t].response[1].body

\* The body is an envelope: an object whose respuesta is a boolean.
IsEnvelope(body) == body.form = "object" /\ body.respuesta \in {"true", "false"}

\* C1: a success envelope either yields a value of the response shape or,
\* when its payload is not of that shape (a string or no payload at all
\* for a shape that is not str included), raises ProtocolError.
C1_SuccessConformsOrProtocolError ==
    \A t \in Threads :
        (Replied(t) /\ IsEnvelope(BodyOf(t)) /\ BodyOf(t).respuesta = "true") =>
            IF Conforms(BodyOf(t).resultado, op[t].response_type)
            THEN out[t].kind = "return" /\ out[t].val = <<BodyOf(t).resultado>>
            ELSE out[t].kind = "ProtocolError"

\* C2: a rejection envelope always ends in RemoteRejectionError, whatever
\* its payload is.
C2_RejectionWhateverPayload ==
    \A t \in Threads :
        (Replied(t) /\ IsEnvelope(BodyOf(t)) /\ BodyOf(t).respuesta = "false") =>
            out[t].kind = "RemoteRejectionError"

\* C3: a body that is no envelope ends in TransportError when the status is
\* a failure status and in ProtocolError otherwise; no value is returned.
C3_UndecodableByStatus ==
    \A t \in Threads :
        (Replied(t) /\ ~IsEnvelope(BodyOf(t))) =>
            IF StatusOf(t) >= 400
            THEN out[t].kind = "TransportError"
            ELSE out[t].kind = "ProtocolError"

C3_Witness ==
    \E t \in Threads :
        /\ Replied(t) /\ BodyOf(t).form = "garbage" /\ StatusOf(t) = 500
        /\ out[t].kind = "TransportError"

\* What the transport carries for a request: the members in the query
\* string of a GET-class request, in the body of a POST-class one.
Carried(request) ==
    IF request.method \in GET_METHODS THEN request.params ELSE request.data

\* C4: a request handed to the session carries the signature of the seed
\* under the resolved Application's private credential and that
\* Application's public credential, under the configured names and once each,
\* also when the caller's payload held those names; every other field is the
\* caller's.
C4_RequestIsSigned ==
    \A t \in Threads :
        (op[t].kind = "send_request" /\ loc[t].requests > 0) =>
            LET a == loc[t].app
                sent == Carried(loc[t].request[1])
                kh == op[t].key_hashed_token
                kp == op[t].key_public_token
            IN  /\ op[t].app # NoApp => a = op[t].app
                /\ op[t].app = NoApp => obj[a].name = _DEFAULT_APP_NAME
                /\ \A m \in sent :
                      /\ m[1] = kh =>
                           m[2] = sha1(obj[a].private_token \o op[t].token_data)
                      /\ m[1] = kp => m[2] = obj[a].public_token
                      /\ m[1] \notin {kh, kp} => m[2] = op[t].payload[m[1]]
                /\ \A f \in Fields :
                      (f \in {kh, kp} \/ op[t].payload[f] # Absent)
                          <=> (\E m \in sent : m[1] = f)

C4_Witness ==
    \E t \in Threads :
        /\ op[t].kind = "send_request" /\ loc[t].requests > 0
        /\ op[t].payload["token"] = Scalar
        /\ <<"token", sha1("k2" \o "100")>> \in Carried(loc[t].request[1])

\* Whether check_initialized_app accepts the argument in the current registry.
Resolvable(app) ==
    IF app = NoApp THEN apps[_DEFAULT_APP_NAME] # NoApp
    ELSE apps[obj[app].name] = app

Unsupported(t) ==
    op[t].kind = "send_request"
    /\ op[t].method \notin GET_METHODS \cup POST_METHODS

\* C5 as stated: a call with an unsupported method ends in
\* UnsupportedMethodError, with no request made and no session created.
C5_UnsupportedMethodFails ==
    \A t \in Threads :
        (Unsupported(t) /\ Done(t)) =>
            /\ out[t].kind = "UnsupportedMethodError"
            /\ loc[t].requests = 0 /\ loc[t].created = 0

\* C5 amended: a call with an unsupported method makes no request and
\* creates no session; it ends in UnsupportedMethodError when the
\* Application resolves, and in the resolution's own error when it does not.
C5_UnsupportedMethodNoNetwork ==
    \A t \in Threads :
        Unsupported(t) =>
            /\ loc[t].requests = 0 /\ loc[t].created = 0
            /\ loc[t].sess = NoSession
            /\ Done(t) =>
                 IF Resolvable(op[t].app)
                 THEN out[t].kind = "UnsupportedMethodError"
                 ELSE out[t].kind \in {"NotFoundError", "ForeignInstanceError"}

C5_Witness ==
    \E t \in Threads :
        /\ Unsupported(t) /\ Done(t) /\ op[t].method = "DELETE"
        /\ out[t].kind = "UnsupportedMethodError"

\* C6: a GET-class call whose payload holds a value that is neither a scalar
\* nor a list of scalars never reaches the session's request.
C6_InvalidQueryNeverRequested ==
    \A t \in Threads :
        (op[t].kind = "send_request" /\ op[t].method \in GET_METHODS
         /\ ~IsJSONQuery(op[t].payload)) => loc[t].requests = 0

\* Thread t ends an operation of the given kind in this step.
Ends(t, kind) == pc[t] # "done" /\ pc'[t] = "done" /\ op'[t].kind = kind

\* C7: the instances in the registry are, name by name, the one instance
\* stored under the name; an initialize_app that returns found the name free
\* and stored the instance it returns; one that fails with
\* AlreadyInitializedError found the name taken and left the registry and
\* every instance as they were.
C7_OneApplicationPerName ==
    /\ [](\A n \in Names :
            {a \in live : obj[a].name = n}
                = (IF apps[n] = NoApp THEN {} ELSE {apps[n]}))
    /\ [][\A t \in Threads :
            Ends(t, "initialize_app") =>
                /\ out'[t].kind = "return" =>
                     /\ apps[op'[t].name] = NoApp
                     /\ apps'[op'[t].name] = out'[t].val[1]
                     /\ out'[t].val[1] \notin live
                     /\ \A n \in Names \ {op'[t].name} : apps'[n] = apps[n]
                /\ out'[t].kind = "AlreadyInitializedError" =>
                     /\ apps[op'[t].name] # NoApp
                     /\ apps' = apps /\ obj' = obj /\ live' = live
                /\ out'[t].kind \in {"return", "AlreadyInitializedError",
                                     "ConfigurationError"}]_vars

C7_Witness ==
    \E t, u \in Threads :
        /\ t # u /\ Done(t) /\ Done(u)
        /\ op[t].kind = "initialize_app" /\ op[u].kind = "initialize_app"
        /\ op[t].name = op[u].name
        /\ out[t].kind = "return" /\ apps[op[t].name] = out[t].val[1]
        /\ out[u].kind = "AlreadyInitializedError"

Checked(t) == Done(t) /\ op[t].kind = "check_initialized_app"

\* C8 as stated: resolve returns the instance registered under its name and
\* fails with ForeignInstanceError for every other instance; with no
\* instance it returns the default-named one.
C8_ResolveForeignOtherwise ==
    \A t \in Threads :
        Checked(t) =>
            IF op[t].app = NoApp
            THEN apps[_DEFAULT_APP_NAME] # NoApp =>
                    /\ out[t].kind = "return"
                    /\ out[t].val = <<apps[_DEFAULT_APP_NAME]>>
            ELSE IF apps[obj[op[t].app].name] = op[t].app
            THEN out[t].kind = "return" /\ out[t].val = <<op[t].app>>
            ELSE out[t].kind = "ForeignInstanceError"

\* C8 amended: as stated, except that an instance whose name is not
\* registered at all fails with NotFoundError, as does resolve with no
\* instance when the default name is not registered.
C8_ResolveExactInstance ==
    \A t \in Threads :
        Checked(t) =>
            IF op[t].app = NoApp
            THEN IF apps[_DEFAULT_APP_NAME] # NoApp
                 THEN /\ out[t].kind = "return"
                      /\ out[t].val = <<apps[_DEFAULT_APP_NAME]>>
                 ELSE out[t].kind = "NotFoundError"
            ELSE IF apps[obj[op[t].app].name] = op[t].app
            THEN out[t].kind = "return" /\ out[t].val = <<op[t].app>>
            ELSE IF apps[obj[op[t].app].name] = NoApp
            THEN out[t].kind = "NotFoundError"
            ELSE out[t].kind = "ForeignInstanceError"

C8_Witness ==
    \E t \in Threads :
        /\ Checked(t) /\ op[t].app # NoApp
        /\ apps[obj[op[t].app].name] \notin {NoApp, op[t].app}
        /\ out[t].kind = "ForeignInstanceError"

\* C9: a close_app that fails, fails with NotFoundError.
C9_CloseFailsOnlyNotFound ==
    \A t \in Threads :
        (Done(t) /\ op[t].kind = "close_app" /\ out[t].kind # "return") =>
            out[t].kind = "NotFoundError"

\* C10: when a close_app returns, the instance it deleted from the registry
\* has no session or a closed one.
C10_RemovedInstanceSessionClosed ==
    [][\A t \in Threads :
          (Ends(t, "close_app") /\ out'[t].kind = "return") =>
              LET r == loc'[t].removed IN
              obj'[r].session = NoSession \/ closed'[obj'[r].session]]_vars

\* The close_app of thread t has returned.
Closed(t) == Done(t) /\ op[t].kind = "close_app" /\ out[t].kind = "return"

\* C11: once a close_app has returned, the instance it looked up and removed
\* holds no open session, whatever the calls that resolved the instance
\* before the removal do afterwards.
C11_RemovedInstanceHoldsNoSession ==
    \A t \in Threads :
        (Closed(t) /\ loc[t].removed = loc[t].app) =>
            LET r == loc[t].removed IN
            obj[r].session = NoSession \/ closed[obj[r].session]

\* C12: a session is created only for an Application that has no session or
\* a closed one, and it becomes that Application's session; accessors of one
\* Application that hold open sessions hold the same session; as long as no
\* session was closed, every Application has had at most one session.
C12_OneSessionPerApplication ==
    /\ [](\A t, u \in Threads :
            (/\ loc[t].sess # NoSession /\ loc[u].sess # NoSession
             /\ loc[t].app = loc[u].app
             /\ ~closed[loc[t].sess] /\ ~closed[loc[u].sess]) =>
                loc[t].sess = loc[u].sess)
    /\ []((\A s \in 1..Len(closed) : ~closed[s]) =>
            Len(closed) = Cardinality({a \in AppIds : obj[a].session # NoSession}))
    /\ [][/\ \A a \in AppIds :
               obj'[a].session # obj[a].session =>
                   /\ obj[a].session = NoSession \/ closed[obj[a].session]
                   /\ obj'[a].session = Len(closed) + 1
                   /\ closed' = Append(closed, FALSE)
          /\ Len(closed') > Len(closed) =>
               \E a \in AppIds : obj'[a].session # obj[a].session]_vars

C12_Witness ==
    \E t, u \in Threads :
        /\ t # u
        /\ op[t].kind = "send_request" /\ op[u].kind = "send_request"
        /\ loc[t].app = loc[u].app
        /\ loc[t].sess # NoSession /\ loc[t].sess = loc[u].sess
        /\ loc[t].created + loc[u].created = 1

\* C13: the removal by close_app leaves the name unregistered; a name that
\* is unregistered becomes registered only by an initialize_app that returns
\* a newly constructed instance, distinct from every instance that existed
\* before; initialize_app of an unregistered name with credentials succeeds;
\* get_app fails with NotFoundError exactly while the name is unregistered and
\* returns the registered instance otherwise.
C13_CloseThenGetThenInitialize ==
    [][/\ \A t \in Threads :
            /\ (pc[t] = "close_del" /\ pc'[t] = "close_check") =>
                   apps'[op[t].name] = NoApp
            /\ (Ends(t, "close_app") /\ out'[t].kind = "return") =>
                   loc'[t].removed # NoApp
            /\ Ends(t, "get_app") =>
                   out'[t] = (IF apps[op'[t].name] = NoApp
                              THEN Raises("NotFoundError")
                              ELSE Returns(apps[op'[t].name]))
            /\ (/\ Ends(t, "initialize_app")
                /\ apps[op'[t].name] = NoApp
                /\ Truthy(op'[t].private_token)
                /\ Truthy(op'[t].public_token)) =>
                   /\ out'[t].kind = "return"
                   /\ apps'[op'[t].name] = out'[t].val[1]
       /\ \A n \in Names :
            (apps[n] = NoApp /\ apps'[n] # NoApp) =>
                /\ apps'[n] \notin 1..numApps
                /\ \E t \in Threads :
                      /\ Ends(t, "initialize_app") /\ op'[t].name = n
                      /\ out'[t] = Returns(apps'[n])]_vars

\* A get_app has returned the second instance of the name: the first one was
\* closed and the name initialized again.
C13_Witness ==
    \E t \in Threads :
        /\ Done(t) /\ op[t].kind = "get_app" /\ out[t] = Returns(2)
        /\ obj[1].name = op[t].name /\ obj[2].name = op[t].name
        /\ 1 \notin live

\* A credential that is neither None nor empty.
Present(x) == x # None /\ x # ""

\* What lines 122-124 leave in a credential x whose variable holds e, when
\* `either` of the two credentials was None.
Fallen(x, e, either) == IF either /\ e # None THEN e ELSE x

\* C14: initialize_app fails with ConfigurationError exactly when, after the
\* environment was consulted, the private or the public credential is None or
\* empty; the failing call leaves the registry and every instance as they
\* were, and no instance ever holds a missing credential.
C14_MissingCredentialFails ==
    /\ [](\A a \in 1..numApps :
            Present(obj[a].private_token) /\ Present(obj[a].public_token))
    /\ [][\A t \in Threads :
            Ends(t, "initialize_app") =>
                LET p == op'[t].private_token
                    q == op'[t].public_token
                    either == p = None \/ q = None
                    missing ==
                        ~(/\ Present(Fallen(p, env.PAGOPAR_PRIVATE_TOKEN, either))
                          /\ Present(Fallen(q, env.PAGOPAR_PUBLIC_TOKEN, either)))
                IN  /\ out'[t].kind = "ConfigurationError" <=> missing
                    /\ missing =>
                         /\ apps' = apps /\ obj' = obj
                         /\ numApps' = numApps /\ live' = live]_vars

C14_Witness ==
    \E t \in Threads :
        /\ Done(t) /\ op[t].kind = "initialize_app"
        /\ op[t].private_token = "k1" /\ op[t].public_token = None
        /\ env.PAGOPAR_PRIVATE_TOKEN = "ek" /\ env.PAGOPAR_PUBLIC_TOKEN = None
        /\ out[t].kind = "ConfigurationError"

\* The initialize_app of thread t has returned an instance.
Initialized(t) ==
    Done(t) /\ op[t].kind = "initialize_app" /\ out[t].kind = "return"

\* C15: a credential passed explicitly to initialize_app is the one the
\* returned Application holds.
C15_ExplicitCredentialStored ==
    \A t \in Threads :
        Initialized(t) =>
            LET a == out[t].val[1] IN
            /\ op[t].private_token # None =>
                 obj[a].private_token = op[t].private_token
            /\ op[t].public_token # None =>
                 obj[a].public_token = op[t].public_token

\* C16: initialize_app with a name other than the default and an omitted
\* credential fails with ConfigurationError, whatever the environment holds.
C16_FallbackOnlyForDefaultName ==
    \A t \in Threads :
        (/\ Done(t) /\ op[t].kind = "initialize_app"
         /\ op[t].name # _DEFAULT_APP_NAME
         /\ (op[t].private_token = None \/ op[t].public_token = None)) =>
            out[t].kind = "ConfigurationError"

\* The select_shipping_method of thread t has ended.
Selected(t) == Done(t) /\ op[t].kind = "select_shipping_method"

\* The item's shipping options when the call was made, and now.
Before(t) == op[t].item.shipping_options
After == item.shipping_options

\* The sub-configuration of a courier in a shipping options record.
Courier(options, method) ==
    IF method = "AEX" THEN options.aex_method ELSE options.mobi_method
Other(options, method) ==
    IF method = "AEX" THEN options.mobi_method ELSE options.aex_method

\* The positions of the options with the id the call asked for.
Matching(t) ==
    LET c == Courier(Before(t), op[t].method) IN
    IF c = <<>> THEN {}
    ELSE {i \in 1..Len(c[1].options) : c[1].options[i].option_id = op[t].option_id}

ByCourier(t) == Selected(t) /\ op[t].method \in {"AEX", "MOBI"}

\* C17: a courier selection whose option id matches an option of the
\* courier's sub-configuration returns and leaves a selection record in the
\* item: tagged with the method, costing what the first matching option
\* costs, the courier's selected id set to the option id and nothing else of
\* that sub-configuration changed, the other three sub-configurations as they
\* were.
C17_MatchCommitsOption ==
    \A t \in Threads :
        (ByCourier(t) /\ Matching(t) # {}) =>
            LET c == Courier(Before(t), op[t].method)[1]
                i == CHOOSE k \in Matching(t) : \A j \in Matching(t) : k <= j
            IN  /\ out[t] = Returns(None)
                /\ After.type = "ShippingOptionsSelection"
                /\ After.selected_method = op[t].method
                /\ After.shipping_cost = c.options[i].cost
                /\ Courier(After, op[t].method) =
                       <<[option_id |-> op[t].option_id,
                          options |-> c.options, cost |-> c.cost]>>
                /\ Other(After, op[t].method) = Other(Before(t), op[t].method)
                /\ After.pickup_method = Before(t).pickup_method
                /\ After.delivery_method = Before(t).delivery_method

C17_Witness ==
    \E t \in Threads :
        /\ ByCourier(t) /\ op[t].method = "AEX" /\ op[t].option_id = "10-1"
        /\ Before(t).aex_method # <<>>
        /\ Before(t).aex_method[1].option_id = "10-0"
        /\ Before(t).mobi_method # <<>>
        /\ out[t] = Returns(None)
        /\ After.shipping_cost = 20000
        /\ After.aex_method[1].option_id = "10-1"

\* C18: a courier selection on a present sub-configuration none of whose
\* options has the option id (no id given and an empty list included) fails
\* with InvalidOptionError and leaves the item as it was.
C18_NoMatchFailsUnchanged ==
    \A t \in Threads :
        (/\ ByCourier(t) /\ Courier(Before(t), op[t].method) # <<>>
         /\ Matching(t) = {}) =>
            /\ out[t] = Raises("InvalidOptionError")
            /\ item = op[t].item

C18_Witness ==
    \E t \in Threads :
        /\ ByCourier(t) /\ op[t].method = "MOBI" /\ op[t].option_id = None
        /\ Before(t).mobi_method # <<>>
        /\ Before(t).mobi_method[1].options # <<>>
        /\ Before(t).mobi_method[1].option_id = "10-0"
        /\ out[t] = Raises("InvalidOptionError")
        /\ After.mobi_method[1].option_id = "10-0"

\* C19: a courier selection on an item without that courier's
\* sub-configuration fails with MissingConfigurationError, whatever the
\* option id, and leaves the item as it was.
C19_AbsentCourierFailsUnchanged ==
    \A t \in Threads :
        (ByCourier(t) /\ Courier(Before(t), op[t].method) = <<>>) =>
            /\ out[t] = Raises("MissingConfigurationError")
            /\ item = op[t].item

C19_Witness ==
    \E t \in Threads :
        /\ ByCourier(t) /\ op[t].method = "AEX" /\ op[t].option_id = "10-0"
        /\ Before(t).aex_method = <<>>
        /\ Before(t).mobi_method # <<>>
        /\ Matching(t) = {}
        /\ \E i \in 1..Len(Before(t).mobi_method[1].options) :
              Before(t).mobi_method[1].options[i].option_id = "10-0"
        /\ out[t] = Raises("MissingConfigurationError")

TokenSent(t) ==
    {m[2] : m \in {n \in Carried(loc[t].request[1]) : n[1] = op[t].key_hashed_token}}

\* C23: the token of a signed request is the digest of the Application's
\* private credential immediately followed by the seed and of nothing else,
\* whatever initialize_app, close_app, calls and session creations came
\* before: the same credential and seed give the same token.
C23_TokenIsDigestOfCredentialAndSeed ==
    \A t \in Threads :
        (op[t].kind = "send_request" /\ loc[t].request # <<>>) =>
            TokenSent(t) =
                {"sha1(" \o obj[loc[t].app].private_token \o op[t].token_data \o ")"}

\* The call of the third instance, made after two instances were closed and
\* a session was created, carries the token of the first call.
C23_Witness ==
    \E t \in Threads :
        /\ op[t].kind = "send_request" /\ loc[t].request # <<>>
        /\ loc[t].app = 3 /\ obj[1].private_token = "k1"
        /\ obj[3].private_token = "k1" /\ obj[2].private_token = "k2"
        /\ Len(closed) > 0
        /\ op[t].token_data = "CONSULTA"
        /\ TokenSent(t) = {"sha1(k1CONSULTA)"}

\* C25: whenever the item carries a selection record of a courier, that
\* courier's sub-configuration is present, has a selected id, and an option
\* of its list with that id costs what the record says.
C25_CourierCostIsSelectedOptionCost ==
    (After # <<>> /\ After.type = "ShippingOptionsSelection"
     /\ After.selected_method \in {"AEX", "MOBI"}) =>
        LET c == Courier(After, After.selected_method) IN
        /\ c # <<>>
        /\ \E i \in 1..Len(c[1].options) :
              /\ c[1].options[i].option_id = c[1].option_id
              /\ c[1].options[i].cost = After.shipping_cost

\* A failing call on an item that carries a courier selection.
C25_Witness ==
    \E t \in Threads :
        /\ Selected(t) /\ out[t] = Raises("InvalidOptionError")
        /\ op[t].method = "AEX" /\ op[t].option_id = "99-9"
        /\ After.type = "ShippingOptionsSelection"
        /\ After.selected_method = "AEX" /\ After.shipping_cost = 20000
        /\ After.aex_method[1].option_id = "10-1"

FailureKinds == {"TransportError", "ProtocolError", "RemoteRejectionError"}

\* C26: a send_request that ends in TransportError, ProtocolError or
\* RemoteRejectionError changes neither the registry nor any Application nor
\* any session, and a call that finds its Application with an open session
\* takes that session and creates none.
C26_FailedCallKeepsSession ==
    [][\A t \in Threads :
          /\ (Ends(t, "send_request") /\ out'[t].kind \in FailureKinds) =>
                /\ apps' = apps /\ obj' = obj /\ closed' = closed /\ live' = live
                /\ loc'[t].sess # NoSession =>
                      /\ obj'[loc'[t].app].session = loc'[t].sess
                      /\ ~closed'[loc'[t].sess]
          /\ (/\ pc[t] = "send_session" /\ pc'[t] = "send_call"
              /\ obj[loc[t].app].session # NoSession
              /\ ~closed[obj[loc[t].app].session]) =>
                /\ loc'[t].sess = obj[loc[t].app].session
                /\ loc'[t].created = 0
                /\ closed' = closed /\ obj' = obj]_vars

\* A call that took the session an earlier call had created has failed.
C26_Witness ==
    \E t \in Threads :
        /\ Done(t) /\ op[t].kind = "send_request"
        /\ out[t].kind = "RemoteRejectionError"
        /\ started >= 3
        /\ loc[t].created = 0 /\ loc[t].sess = obj[loc[t].app].session
        /\ ~closed[loc[t].sess] /\ apps[_DEFAULT_APP_NAME] = loc[t].app

\* C27: a send_request enters the session's request at most once; when it
\* has ended it has done so exactly once if its Application resolved and its
\* method is supported, and not at all otherwise, whatever the response was.
C27_OneRoundTrip ==
    \A t \in Threads :
        op[t].kind = "send_request" =>
            /\ loc[t].requests <= 1
            /\ Done(t) =>
                 loc[t].requests =
                     (IF Resolvable(op[t].app)
                         /\ op[t].method \in GET_METHODS \cup POST_METHODS
                      THEN 1 ELSE 0)

C27_Witness ==
    \E t \in Threads :
        /\ Replied(t) /\ StatusOf(t) = 500 /\ BodyOf(t).form = "garbage"
        /\ out[t].kind = "TransportError" /\ loc[t].requests = 1

\* The calls that repeat the item's last successful selection: the record
\* names the method and, for a courier, the courier's selected id is the
\* option id of the call.
Repeats(method, option_id) ==
    /\ After.type = "ShippingOptionsSelection"
    /\ After.selected_method = method
    /\ method \in {"AEX", "MOBI"} =>
          /\ Courier(After, method) # <<>>
          /\ Courier(After, method)[1].option_id = option_id

\* C28: a select_shipping_method that repeats the last successful selection
\* of the item (the same method and option id, no successful call in
\* between) succeeds and leaves the item's record equal, field for field.
C28_SelectIsIdempotent ==
    [][\A t \in Threads :
          (Ends(t, "select_shipping_method")
           /\ Repeats(op'[t].method, op'[t].option_id)) =>
              /\ out'[t] = Returns(None)
              /\ item' = item]_vars

C28_Witness ==
    \E t \in Threads :
        /\ Selected(t) /\ out[t] = Returns(None)
        /\ op[t].method = "AEX" /\ op[t].option_id = "10-1"
        /\ Before(t).type = "ShippingOptionsSelection"
        /\ Before(t).selected_method = "AEX"
        /\ Before(t).aex_method[1].option_id = "10-1"
        /\ After = Before(t)

\* The envelope decodes as Response[response_type].
Decodes(body, response_type) ==
    /\ IsEnvelope(body)
    /\ \/ body.resultado.type \in {"absent", "string"}
       \/ Conforms(body.resultado, response_type)

\* C29: a response whose envelope decodes is handled by its success flag,
\* whatever its status: a success returns the payload, a rejection raises
\* RemoteRejectionError; TransportError is raised only for a body that does not
\* decode.
C29_StatusOnlyWhenUndecodable ==
    \A t \in Threads :
        Replied(t) =>
            /\ Decodes(BodyOf(t), op[t].response_type) =>
                 out[t].kind =
                     (IF BodyOf(t).respuesta = "true" THEN "return"
                      ELSE "RemoteRejectionError")
            /\ out[t].kind = "TransportError" =>
                 ~Decodes(BodyOf(t), op[t].response_type)

C29_Witness ==
    \E t \in Threads :
        /\ Replied(t) /\ StatusOf(t) = 500
        /\ BodyOf(t) = Body("object", "false", JString("X"))
        /\ out[t] = RaisesWith("RemoteRejectionError", JString("X"))

\* C30: a selected id in a courier's sub-configuration is never cleared; it
\* changes only when a select_shipping_method of that courier succeeds, to
\* the option id of that call.
C30_SelectedIdIsKept ==
    [][\A m \in {"AEX", "MOBI"} :
          (/\ After # <<>> /\ Courier(After, m) # <<>>
           /\ Courier(After, m)[1].option_id # None) =>
              LET now == Courier(item'.shipping_options, m) IN
              /\ now # <<>>
              /\ \/ now[1].option_id = Courier(After, m)[1].option_id
                 \/ \E t \in Threads :
                       /\ Ends(t, "select_shipping_method")
                       /\ op'[t].method = m /\ out'[t] = Returns(None)
                       /\ now[1].option_id = op'[t].option_id
                       /\ op'[t].option_id # None]_vars

C30_Witness ==
    \E t \in Threads :
        /\ Selected(t) /\ out[t] = Returns(None)
        /\ op[t].method = "MOBI" /\ op[t].option_id = "10-1"
        /\ Before(t).aex_method # <<>>
        /\ Before(t).aex_method[1].option_id = "10-0"
        /\ After.aex_method[1].option_id = "10-0"
        /\ After.selected_method = "MOBI" /\ After.shipping_cost = 20000

\* C24: start_transaction and start_transaction_in_usd with an empty item
\* collection end at once with ValueError: no Application was resolved,
\* nothing was signed, no session was taken and no request was made, whether
\* or not the app argument would have resolved.
C24_EmptyItemsFailFirst ==
    \A t \in Threads :
        (op[t].kind \in StartKinds /\ Len(op[t].items) = 0) =>
            /\ Done(t)
            /\ out[t].kind = "ValueError"
            /\ loc[t] = NoLoc

\* An empty collection for an app argument that would not have resolved.
C24_Witness ==
    \E t \in Threads :
        /\ op[t].kind = "start_transaction_in_usd" /\ op[t].items = <<>>
        /\ op[t].app = 1 /\ ~Resolvable(op[t].app)
        /\ out[t].kind = "ValueError"
        /\ closed = <<>>

\* Thread t has parsed a notification that is a JSON object.
Parsing(t) ==
    /\ Done(t) /\ op[t].kind = "parse_syncronization"
    /\ op[t].message.form = "object"

\* The entries of the notification thread t parsed.
Datos(t) == op[t].message.datos

\* The discriminant is the value of one of the four log types.
Recognized(v) == v.type = "int" /\ v.n \in 1..4

\* The discriminant is there and is no log type.
Unrecognized(v) == v.type # "absent" /\ ~Recognized(v)

\* The shape the discriminant of a recognized entry calls for.
ShapeOf(raw) ==
    IF raw.tipo_aviso.n \in {3, 4} THEN "ProductLog" ELSE "InventoryLog"

\* The entry has a recognized discriminant and the members its shape requires.
Accepted(raw) ==
    /\ Recognized(raw.tipo_aviso)
    /\ IF ShapeOf(raw) = "ProductLog" THEN raw.rest \in {"product", "both"}
       ELSE raw.rest \in {"inventory", "both"}

\* Entry i is the first the loop cannot take.
FirstRefused(t, i) ==
    /\ i \in 1..Len(Datos(t))
    /\ ~Accepted(Datos(t)[i])
    /\ \A j \in 1..(i - 1) : Accepted(Datos(t)[j])

\* C21: a notification with an entry whose discriminant is no log type is
\* never parsed; when that entry is the first the loop cannot take the call
\* ends with UnknownLogTypeError, for a number, a numeral and a word alike;
\* and parse_syncronization ends in no other way than a result, DecodeError
\* or UnknownLogTypeError.
C21_UnknownDiscriminantFails ==
    \A t \in Threads :
        /\ op[t].kind = "parse_syncronization" =>
              /\ Done(t)
              /\ out[t].kind \in {"return", "DecodeError", "UnknownLogTypeError"}
        /\ Parsing(t) =>
              \A i \in 1..Len(Datos(t)) :
                  Unrecognized(Datos(t)[i].tipo_aviso) =>
                      /\ out[t].kind # "return"
                      /\ FirstRefused(t, i) => out[t] = Raises("UnknownLogTypeError")

\* The second entry carries the number 7 and would fit either shape.
C21_Witness ==
    \E t \in Threads :
        /\ Parsing(t)
        /\ Datos(t) = <<Raw(JInt(1), "inventory"), Raw(JInt(7), "both")>>
        /\ out[t] = Raises("UnknownLogTypeError")

\* C22: a notification is parsed exactly when every entry has a recognized
\* discriminant and fits the shape that discriminant calls for; each parsed
\* entry has that shape, ProductLog for CREATED_PRODUCT and MODIFIED_PRODUCT
\* and InventoryLog for SOLD_ORDER and CANCELLED_ORDER; an entry that fits
\* the other shape only is refused with DecodeError, not decoded as the other.
C22_ShapeFromDiscriminant ==
    \A t \in Threads :
        Parsing(t) =>
            /\ out[t].kind = "return" <=>
                  \A i \in 1..Len(Datos(t)) : Accepted(Datos(t)[i])
            /\ out[t].kind = "return" =>
                  /\ Len(out[t].val[1].data) = Len(Datos(t))
                  /\ \A i \in 1..Len(Datos(t)) :
                        /\ out[t].val[1].data[i].shape = ShapeOf(Datos(t)[i])
                        /\ out[t].val[1].data[i].log_type = Datos(t)[i].tipo_aviso.n
            /\ \A i \in 1..Len(Datos(t)) :
                  (FirstRefused(t, i) /\ Recognized(Datos(t)[i].tipo_aviso)) =>
                      out[t] = Raises("DecodeError")

\* Two entries that fit both shapes are decoded by their discriminants.
C22_Witness ==
    \E t \in Threads :
        /\ Parsing(t)
        /\ Datos(t) = <<Raw(JInt(4), "both"), Raw(JInt(1), "both")>>
        /\ out[t].kind = "return"
        /\ out[t].val[1].data[1].shape = "ProductLog"
        /\ out[t].val[1].data[2].shape = "InventoryLog"

====
